---- MODULE Spec2Model ----
(***************************************************************************)
(* Antimeridian handling of the three scripts of ixstats:                  *)
(*   scripts/split-dateline-geojson.py  (policy "SplitInterpolate")        *)
(*   scripts/split-dateline-v2.py       (policy "SplitPartition")          *)
(*   scripts/fix-dateline-final.py      (policy "ShiftUnify")              *)
(*                                                                         *)
(* A coordinate is <<lon, lat>>.  Longitudes are integers.  A latitude is  *)
(* a reduced fraction <<n, d>> with d > 0, so that the interpolated seam   *)
(* latitude lat1 + ratio * (lat2 - lat1) is computed exactly and Python's  *)
(* comparison of points by value is equality of the tuples.                *)
(***************************************************************************)
EXTENDS Integers, Sequences, FiniteSets, TLC

VARIABLES policy, features, idx, new_features, emitted, status

vars == <<policy, features, idx, new_features, emitted, status>>

----------------------------------------------------------------------------
(* Arithmetic of the latitudes *)

Abs(x) == IF x < 0 THEN -x ELSE x

RECURSIVE GCD(_, _)
GCD(a, b) == IF b = 0 THEN a ELSE GCD(b, a % b)

\* the fraction n/d (d # 0) in lowest terms with a positive denominator
Rat(n, d) ==
  LET g == GCD(Abs(n), Abs(d))
      s == IF d < 0 THEN -1 ELSE 1
  IN  <<(s * n) \div g, (s * d) \div g>>

RAdd(x, y) == Rat(x[1] * y[2] + y[1] * x[2], x[2] * y[2])
RSub(x, y) == Rat(x[1] * y[2] - y[1] * x[2], x[2] * y[2])
RMul(x, y) == Rat(x[1] * y[1], x[2] * y[2])

\* a coordinate as json.load yields it: [lon, lat] with a whole latitude
Pt(lon, lat) == <<lon, <<lat, 1>>>>

Lon(c) == c[1]
Lat(c) == c[2]

----------------------------------------------------------------------------
(* Folds over sequences *)

RECURSIVE SetMin(_)
SetMin(S) ==
  LET x == CHOOSE y \in S : TRUE
  IN  IF S = {x} THEN x
      ELSE LET m == SetMin(S \ {x}) IN IF x < m THEN x ELSE m

RECURSIVE SetMax(_)
SetMax(S) ==
  LET x == CHOOSE y \in S : TRUE
  IN  IF S = {x} THEN x
      ELSE LET m == SetMax(S \ {x}) IN IF x > m THEN x ELSE m

\* the longitudes of a ring, as a set
RingLons(ring) == {Lon(ring[i]) : i \in 1..Len(ring)}

----------------------------------------------------------------------------
(* scripts/split-dateline-geojson.py *)

\* crosses_dateline: some consecutive pair jumps by more than 180 degrees
crosses_dateline(coords) ==
  \E i \in 1..(Len(coords) - 1) : Abs(Lon(coords[i + 1]) - Lon(coords[i])) > 180

\* the state of the walk before its first edge
WalkInit ==
  [west_part |-> <<>>, east_part |-> <<>>, current_part |-> <<>>,
   is_west |-> TRUE, raised |-> FALSE]

\* the denominator of ratio on a crossing edge: 0 raises ZeroDivisionError
ratio_den(p1, p2) ==
  IF Lon(p1) > 0 THEN (Lon(p2) + 360) - Lon(p1) ELSE (Lon(p2) - 360) - Lon(p1)

\* lat_cross = lat1 + ratio * (lat2 - lat1) on a crossing edge with ratio_den # 0
lat_cross(p1, p2) ==
  LET num == IF Lon(p1) > 0 THEN 180 - Lon(p1) ELSE -180 - Lon(p1)
  IN  RAdd(Lat(p1), RMul(Rat(num, ratio_den(p1, p2)), RSub(Lat(p2), Lat(p1))))

\* lines 49-58 and 63-72: the buffer, closed with the seam point, goes to the
\* active side; the next buffer starts on the opposite seam; the side flips
CrossSeam(st, cur, seam, lat) ==
  [west_part    |-> IF st.is_west THEN Append(cur, <<seam, lat>>) ELSE st.west_part,
   east_part    |-> IF st.is_west THEN st.east_part ELSE Append(cur, <<seam, lat>>),
   current_part |-> << <<-seam, lat>> >>,
   is_west      |-> ~st.is_west,
   raised       |-> FALSE]

\* one iteration of the loop of split_polygon_at_dateline, on the edge p1 -> p2
WalkEdge(st, p1, p2) ==
  IF Abs(Lon(p2) - Lon(p1)) > 180
  THEN IF ratio_den(p1, p2) = 0
       THEN [st EXCEPT !.current_part = Append(st.current_part, p1), !.raised = TRUE]
       ELSE CrossSeam(st, Append(st.current_part, p1),
                      IF Lon(p1) > 0 THEN 180 ELSE -180, lat_cross(p1, p2))
  ELSE [st EXCEPT !.current_part = Append(st.current_part, p1)]

\* the loop over i in range(len(coords) - 1); a ZeroDivisionError ends it.
\* (The state after an edge is bound to s, so that it is computed once.)
RECURSIVE Walk(_, _, _)
Walk(coords, i, st) ==
  IF i > Len(coords) - 1 \/ st.raised THEN st
  ELSE CHOOSE r \in {Walk(coords, i + 1, s) : s \in {WalkEdge(st, coords[i], coords[i + 1])}} : TRUE

\* "Make sure both parts are closed rings"
CloseRing(part) ==
  IF part # <<>> /\ part[1] # part[Len(part)] THEN Append(part, part[1]) ELSE part

\* AssignFinal with the final buffer replacing what its side already holds
AssignFinalOverwrite(part, active, current_part) ==
  IF active THEN current_part ELSE part

\* "Assign the final part": the buffer becomes the part of its side, or is
\* concatenated without its first point onto what that side already holds
AssignFinal(part, active, current_part) ==
  IF active
  THEN (IF part = <<>> THEN current_part ELSE part \o Tail(current_part))
  ELSE part

\* lines 74-90, from the state st the walk ended in
FinishWalk(coords, st) ==
  IF st.raised
  THEN [raised |-> TRUE, west_part |-> <<>>, east_part |-> <<>>]
  ELSE [raised    |-> FALSE,
        west_part |-> CloseRing(AssignFinal(st.west_part, st.is_west,
                        IF coords # <<>> THEN Append(st.current_part, coords[Len(coords)])
                        ELSE st.current_part)),
        east_part |-> CloseRing(AssignFinal(st.east_part, ~st.is_west,
                        IF coords # <<>> THEN Append(st.current_part, coords[Len(coords)])
                        ELSE st.current_part))]

\* split_polygon_at_dateline: [raised, west_part, east_part]
split_polygon_at_dateline(coords) ==
  CHOOSE r \in {FinishWalk(coords, st) : st \in {Walk(coords, 1, WalkInit)}} : TRUE

\* KeepPart with the threshold one too low
KeepPartOver2(part) == IF part # <<>> /\ Len(part) > 2 THEN << <<part>> >> ELSE <<>>

\* lines 107-110: a part of more than 3 points becomes a polygon of one ring
KeepPart(part) == IF part # <<>> /\ Len(part) > 3 THEN << <<part>> >> ELSE <<>>

\* lines 103-110, from the result sp of the split of the outer ring
SplitParts(sp) ==
  [raised |-> sp.raised, polygons |-> KeepPart(sp.west_part) \o KeepPart(sp.east_part)]

\* the polygons that replace one polygon: lines 98-115 of process_multipolygon;
\* the holes of a split polygon are dropped
ProcessPolygon(polygon) ==
  IF crosses_dateline(polygon[1])
  THEN CHOOSE r \in {SplitParts(sp) : sp \in {split_polygon_at_dateline(polygon[1])}} : TRUE
  ELSE [raised |-> FALSE, polygons |-> <<polygon>>]

\* process_multipolygon: [raised, polygons]
RECURSIVE process_multipolygon(_)
process_multipolygon(multipolygon_coords) ==
  IF multipolygon_coords = <<>>
  THEN [raised |-> FALSE, polygons |-> <<>>]
  ELSE CHOOSE r \in
         {[raised   |-> h.raised \/ t.raised, polygons |-> h.polygons \o t.polygons] :
            h \in {ProcessPolygon(Head(multipolygon_coords))},
            t \in {process_multipolygon(Tail(multipolygon_coords))}} : TRUE

\* needs_split of process_geojson: the outer ring of some polygon crosses
needs_split(coords) == \E k \in 1..Len(coords) : crosses_dateline(coords[k][1])

\* the body of the loop of process_geojson for one feature: [raised, out]
SplitInterpolateFeature(feature) ==
  IF feature.geom_type = "MultiPolygon" /\ needs_split(feature.coordinates)
  THEN CHOOSE x \in
         {[raised |-> r.raised, out |-> << [feature EXCEPT !.coordinates = r.polygons] >>] :
            r \in {process_multipolygon(feature.coordinates)}} : TRUE
  ELSE [raised |-> FALSE, out |-> <<feature>>]

----------------------------------------------------------------------------
(* scripts/split-dateline-v2.py *)

\* the span test on one outer ring: (max_lon - min_lon) > 350
SpanCrosses(outer_ring) ==
  SetMax(RingLons(outer_ring)) - SetMin(RingLons(outer_ring)) > 350

east_points(outer_ring) == SelectSeq(outer_ring, LAMBDA c : Lon(c) > 0)
west_points(outer_ring) == SelectSeq(outer_ring, LAMBDA c : ~(Lon(c) > 0))

\* eastern points past 170 are moved by -360, then the ring is closed
east_polygon(pts) ==
  CloseRing([i \in 1..Len(pts) |->
               IF Lon(pts[i]) > 170 THEN <<Lon(pts[i]) - 360, Lat(pts[i])>> ELSE pts[i]])

\* western points below -170 are moved by +360, then the ring is closed
west_polygon(pts) ==
  CloseRing([i \in 1..Len(pts) |->
               IF Lon(pts[i]) < -170 THEN <<Lon(pts[i]) + 360, Lat(pts[i])>> ELSE pts[i]])

\* AppendPart with the threshold on the group one too low
AppendPartOver2(pts, ring) ==
  IF pts # <<>> /\ Len(pts) > 2 /\ Len(ring) > 3 THEN << << <<ring>> >> >> ELSE <<>>

\* lines 65-79 and 81-95: a group of more than 3 points whose closed ring has
\* more than 3 points is appended to parts_to_split as [[ring]]
AppendPart(pts, ring) ==
  IF pts # <<>> /\ Len(pts) > 3 /\ Len(ring) > 3 THEN << << <<ring>> >> >> ELSE <<>>

\* what one polygon appends to parts_to_split: a sequence of MultiPolygon coordinates
PolygonParts(polygon) ==
  IF SpanCrosses(polygon[1])
  THEN AppendPart(east_points(polygon[1]), east_polygon(east_points(polygon[1])))
         \o AppendPart(west_points(polygon[1]), west_polygon(west_points(polygon[1])))
  ELSE << <<polygon>> >>

has_crossing(coords) == \E k \in 1..Len(coords) : SpanCrosses(coords[k][1])

RECURSIVE parts_to_split(_)
parts_to_split(coords) ==
  IF coords = <<>> THEN <<>> ELSE PolygonParts(Head(coords)) \o parts_to_split(Tail(coords))

\* lines 105-117: one feature for each part, with a copy of the properties and,
\* when there are several parts, the part index under '_part'
PartFeatures(props, parts) ==
  [part_idx \in 1..Len(parts) |->
     [geom_type   |-> "MultiPolygon",
      properties  |-> IF Len(parts) > 1 THEN ("_part" :> part_idx) @@ props ELSE props,
      coordinates |-> parts[part_idx]]]

\* the body of the loop of process_geojson (v2) for one feature: the features emitted
SplitPartitionFeature(feature) ==
  IF feature.geom_type = "MultiPolygon" /\ has_crossing(feature.coordinates)
  THEN CHOOSE x \in {PartFeatures(feature.properties, parts) :
                       parts \in {parts_to_split(feature.coordinates)}} : TRUE
  ELSE <<feature>>

----------------------------------------------------------------------------
(* scripts/fix-dateline-final.py *)

\* all_lons: the longitudes of every ring (outer and holes) of every polygon
all_lons(coords) ==
  UNION {UNION {RingLons(coords[k][r]) : r \in 1..Len(coords[k])} : k \in 1..Len(coords)}

\* BoxTest with the margins included
BoxTestInclusive(lons) == lons # {} /\ SetMin(lons) <= -170 /\ SetMax(lons) >= 170

\* lines 34-40: if all_lons: min_lon < -170 and max_lon > 170
BoxTest(lons) == lons # {} /\ SetMin(lons) < -170 /\ SetMax(lons) > 170

BoxCrosses(coords) == \E lons \in {all_lons(coords)} : BoxTest(lons)

\* ShiftRing moving only the longitudes below the margin
ShiftRingBelowMargin(ring) ==
  [i \in 1..Len(ring) |->
     IF Lon(ring[i]) < -170 THEN <<Lon(ring[i]) + 360, Lat(ring[i])>> ELSE ring[i]]

\* "Shift all negative longitudes to positive (add 360)", in every ring
ShiftRing(ring) ==
  [i \in 1..Len(ring) |->
     IF Lon(ring[i]) < 0 THEN <<Lon(ring[i]) + 360, Lat(ring[i])>> ELSE ring[i]]

ShiftCoords(coords) ==
  [k \in 1..Len(coords) |-> [r \in 1..Len(coords[k]) |-> ShiftRing(coords[k][r])]]

\* the body of the loop of fix_dateline_crossing for one feature
ShiftUnifyFeature(feature) ==
  IF feature.geom_type = "MultiPolygon" /\ BoxCrosses(feature.coordinates)
  THEN [feature EXCEPT !.coordinates = ShiftCoords(feature.coordinates)]
  ELSE feature

----------------------------------------------------------------------------
(* The run of one script over a feature collection *)

Policies == {"ShiftUnify", "SplitInterpolate", "SplitPartition"}

\* fix_dateline_crossing, one feature: the feature stays in data['features']
FixStep ==
  /\ policy = "ShiftUnify" /\ status = "running" /\ idx < Len(features)
  /\ \E out \in {<<ShiftUnifyFeature(features[idx + 1])>>} :
       /\ new_features' = new_features \o out
       /\ emitted' = Append(emitted, out)
  /\ idx' = idx + 1
  /\ UNCHANGED <<policy, features, status>>

\* process_geojson of split-dateline-geojson.py, one feature
GeojsonStep ==
  /\ policy = "SplitInterpolate" /\ status = "running" /\ idx < Len(features)
  /\ \E r \in {SplitInterpolateFeature(features[idx + 1])} :
       /\ ~r.raised
       /\ new_features' = new_features \o r.out
       /\ emitted' = Append(emitted, r.out)
  /\ idx' = idx + 1
  /\ UNCHANGED <<policy, features, status>>

\* the same, on a feature whose split divides by zero: the ZeroDivisionError is
\* caught nowhere, the script ends and no output file is written
GeojsonRaise ==
  /\ policy = "SplitInterpolate" /\ status = "running" /\ idx < Len(features)
  /\ SplitInterpolateFeature(features[idx + 1]).raised
  /\ status' = "aborted"
  /\ UNCHANGED <<policy, features, idx, new_features, emitted>>

\* process_geojson of split-dateline-v2.py, one feature
V2Step ==
  /\ policy = "SplitPartition" /\ status = "running" /\ idx < Len(features)
  /\ \E out \in {SplitPartitionFeature(features[idx + 1])} :
       /\ new_features' = new_features \o out
       /\ emitted' = Append(emitted, out)
  /\ idx' = idx + 1
  /\ UNCHANGED <<policy, features, status>>

\* after the loop: json.dump of the output collection
WriteOutput ==
  /\ status = "running" /\ idx = Len(features)
  /\ status' = "done"
  /\ UNCHANGED <<policy, features, idx, new_features, emitted>>

----------------------------------------------------------------------------
(* Inputs *)

\* the closed ring of the vertices s: the first point is repeated at the end
ClosedRing(s) == Append(s, s[1])

MultiPolygonFeature(props, coords) ==
  [geom_type |-> "MultiPolygon", properties |-> props, coordinates |-> coords]

PlainProps == ("id" :> "f1")

Start(p, fs) ==
  /\ policy = p
  /\ features = fs
  /\ idx = 0
  /\ new_features = <<>>
  /\ emitted = <<>>
  /\ status = "running"

\* the longest ring of the rings at the seam
MaxRingLen == 5

SeamCoords == {Pt(lon, lat) : lon \in {-180, -179, 0, 179, 180}, lat \in {0, 10}}

\* split-dateline-geojson.py on one feature of one polygon, its ring a closed
\* ring of 4 to MaxRingLen points at the seam
InitRings ==
  \E n \in 4..MaxRingLen : \E s \in [1..(n - 1) -> SeamCoords] :
    Start("SplitInterpolate", << MultiPolygonFeature(PlainProps, << <<ClosedRing(s)>> >>) >>)

NextRings == GeojsonStep \/ GeojsonRaise \/ WriteOutput

SpecRings == InitRings /\ [][NextRings]_vars

\* the most features of a collection
MaxFeatures == 2

CollectionCoords == {Pt(-180, 0), Pt(-179, 10), Pt(179, 0), Pt(180, 0)}

\* a feature of another geometry type, and the features of one triangle
CollectionFeatures ==
  {[geom_type |-> "Point", properties |-> PlainProps, coordinates |-> Pt(179, 0)]}
    \cup {MultiPolygonFeature(PlainProps, << <<ClosedRing(s)>> >>) :
            s \in [1..3 -> CollectionCoords]}

\* one of the three scripts on a collection of 1 to MaxFeatures features
Init ==
  \E p \in Policies : \E n \in 1..MaxFeatures : \E fs \in [1..n -> CollectionFeatures] :
    Start(p, fs)

Next == FixStep \/ GeojsonStep \/ GeojsonRaise \/ V2Step \/ WriteOutput

Spec == Init /\ [][Next]_vars

\* the longest outer ring given to split-dateline-v2.py
MaxPartitionLen == 8

PartitionCoords == {Pt(-180, 0), Pt(-179, 10), Pt(170, 0), Pt(179, 0)}

\* properties without and with a '_part' key of their own
PartitionProps == {PlainProps, ("_part" :> 9) @@ PlainProps}

\* split-dateline-v2.py on one feature of one polygon, its ring a closed ring
\* of 4 to MaxPartitionLen points
InitPartition ==
  \E n \in 4..MaxPartitionLen : \E s \in [1..(n - 1) -> PartitionCoords] :
    \E props \in PartitionProps :
      Start("SplitPartition", << MultiPolygonFeature(props, << <<ClosedRing(s)>> >>) >>)

NextPartition == V2Step \/ WriteOutput

SpecPartition == InitPartition /\ [][NextPartition]_vars

\* the longest ring given to fix-dateline-final.py
MaxUnifyLen == 4

UnifyCoords == {Pt(-180, 0), Pt(-100, 10), Pt(0, 0), Pt(180, 10)}

\* fix-dateline-final.py on one feature of one polygon, without a hole
InitUnifyPlain ==
  \E n \in 4..MaxUnifyLen : \E s \in [1..(n - 1) -> UnifyCoords] :
    Start("ShiftUnify", << MultiPolygonFeature(PlainProps, << <<ClosedRing(s)>> >>) >>)

\* the same, with a hole
InitUnifyHole ==
  \E n \in 4..MaxUnifyLen : \E s \in [1..(n - 1) -> UnifyCoords] :
    \E m \in 4..MaxUnifyLen : \E h \in [1..(m - 1) -> UnifyCoords] :
      Start("ShiftUnify",
            << MultiPolygonFeature(PlainProps, << <<ClosedRing(s), ClosedRing(h)>> >>) >>)

InitUnify == InitUnifyPlain \/ InitUnifyHole

NextUnify == FixStep \/ WriteOutput

SpecUnify == InitUnify /\ [][NextUnify]_vars

\* the most polygons of a feature away from the seam
MaxPolys == 2

InlandCoords == {Pt(-170, 0), Pt(0, 10), Pt(170, 0)}

\* a hole whose edge from 170 to -170 jumps by more than 180 degrees
JumpHole == <<Pt(170, 0), Pt(-170, 0), Pt(0, 10), Pt(170, 0)>>

\* a triangle, without a hole or with the hole
InlandPolygons ==
  {<<ClosedRing(s)>> : s \in [1..3 -> InlandCoords]}
    \cup {<<ClosedRing(s), JumpHole>> : s \in [1..3 -> InlandCoords]}

\* each of the three scripts on one feature of 1 to MaxPolys polygons with every
\* longitude in [-170, 170]
InitInland ==
  \E p \in Policies : \E n \in 1..MaxPolys : \E coords \in [1..n -> InlandPolygons] :
    Start(p, << MultiPolygonFeature(PlainProps, coords) >>)

NextInland == FixStep \/ GeojsonStep \/ V2Step \/ WriteOutput

SpecInland == InitInland /\ [][NextInland]_vars

----------------------------------------------------------------------------
(* Vocabulary of the claims *)

Range(seq) == {seq[i] : i \in 1..Len(seq)}

\* the edges of a ring that jump by more than 180 degrees
Crossings(ring) ==
  {i \in 1..(Len(ring) - 1) : Abs(Lon(ring[i + 1]) - Lon(ring[i])) > 180}

IsClosed(ring) == ring # <<>> /\ ring[1] = ring[Len(ring)]

LonsWithin(ring, lo, hi) == \A i \in 1..Len(ring) : lo <= Lon(ring[i]) /\ Lon(ring[i]) <= hi

\* the input features already processed, by position
Processed == 1..Len(emitted)

\* the outer ring of the first polygon of input feature k
OuterRing(k) == features[k].coordinates[1][1]

SinglePolygon(k) ==
  /\ features[k].geom_type = "MultiPolygon"
  /\ Len(features[k].coordinates) = 1

\* the seam points a part holds
SeamLats(part, seam) == {Lat(part[i]) : i \in {j \in 1..Len(part) : Lon(part[j]) = seam}}

----------------------------------------------------------------------------
(* Claims on split-dateline-geojson.py, one ring at the seam (SpecRings) *)

\* C1: for a ring that crosses under the edge-jump test, with longitudes in
\* [-180, 180], every coordinate of the west part returned by
\* split_polygon_at_dateline has its longitude in [-180, 0] and every coordinate
\* of the east part in [0, 180], whichever side the first vertex lies on.
C1_WestEastSides ==
  \A k \in Processed :
    LET ring == OuterRing(k)
        sp   == split_polygon_at_dateline(ring)
    IN  (policy = "SplitInterpolate" /\ SinglePolygon(k) /\ Crossings(ring) # {}
           /\ LonsWithin(ring, -180, 180))
        => /\ LonsWithin(sp.west_part, -180, 0)
           /\ LonsWithin(sp.east_part, 0, 180)

\* C2: for a ring with exactly two crossing edges, one returned part holds the
\* +180 seam point of both crossings and the other part holds the -180 seam
\* point of both crossings: no seam point is lost at the final concatenation.
C2_BothSeamPointsKept ==
  \A k \in Processed :
    LET ring == OuterRing(k)
        sp   == split_polygon_at_dateline(ring)
        lats == {lat_cross(ring[i], ring[i + 1]) : i \in Crossings(ring)}
    IN  (policy = "SplitInterpolate" /\ SinglePolygon(k) /\ IsClosed(ring)
           /\ Cardinality(Crossings(ring)) = 2
           /\ \A i \in Crossings(ring) : ratio_den(ring[i], ring[i + 1]) # 0)
        => \/ /\ lats \subseteq SeamLats(sp.west_part, 180)
              /\ lats \subseteq SeamLats(sp.east_part, -180)
           \/ /\ lats \subseteq SeamLats(sp.east_part, 180)
              /\ lats \subseteq SeamLats(sp.west_part, -180)

\* C3: every ring emitted in place of a crossing outer ring is closed and has
\* at least 4 points, a part of 3 or fewer points is left out, and at most two
\* rings are emitted for one crossing ring.
C3_EmittedRingsValid ==
  \A k \in Processed :
    LET ring == OuterRing(k)
        sp   == split_polygon_at_dateline(ring)
        out  == emitted[k][1].coordinates
        kept == {side \in {"west", "east"} :
                   Len(IF side = "west" THEN sp.west_part ELSE sp.east_part) > 3}
    IN  (policy = "SplitInterpolate" /\ SinglePolygon(k) /\ Crossings(ring) # {})
        => /\ Len(out) <= 2
           /\ Len(out) = Cardinality(kept)
           /\ \A j \in 1..Len(out) :
                /\ Len(out[j]) = 1
                /\ IsClosed(out[j][1])
                /\ Len(out[j][1]) >= 4
                /\ out[j][1] \in {sp.west_part, sp.east_part}

\* C3 witness: a crossing ring was split, one part was emitted as a ring and
\* the other part, of 3 points, was left out
C3_Witness ==
  \E k \in Processed :
    /\ policy = "SplitInterpolate" /\ SinglePolygon(k)
    /\ Crossings(OuterRing(k)) # {}
    /\ Len(emitted[k][1].coordinates) = 1
    /\ \/ Len(split_polygon_at_dateline(OuterRing(k)).west_part) = 3
       \/ Len(split_polygon_at_dateline(OuterRing(k)).east_part) = 3

\* C10 as claimed: for a closed ring with an even number of crossings (2, 4, ...)
\* every vertex of the input ring is in the returned west or east part.
C10_NoVertexLostEven ==
  \A k \in Processed :
    LET ring == OuterRing(k)
        sp   == split_polygon_at_dateline(ring)
        n    == Cardinality(Crossings(ring))
    IN  (policy = "SplitInterpolate" /\ SinglePolygon(k) /\ IsClosed(ring)
           /\ n >= 2 /\ n % 2 = 0)
        => Range(ring) \subseteq (Range(sp.west_part) \cup Range(sp.east_part))

\* C10 amended: for a closed ring with exactly two crossings every vertex of the
\* input ring is in the west or east part that split_polygon_at_dateline returns.
C10_NoVertexLostTwo ==
  \A k \in Processed :
    LET ring == OuterRing(k)
        sp   == split_polygon_at_dateline(ring)
    IN  (policy = "SplitInterpolate" /\ SinglePolygon(k) /\ IsClosed(ring)
           /\ Cardinality(Crossings(ring)) = 2)
        => Range(ring) \subseteq (Range(sp.west_part) \cup Range(sp.east_part))

\* C10 witness: a closed ring with two crossings was split into two rings
C10_Witness ==
  \E k \in Processed :
    /\ policy = "SplitInterpolate" /\ SinglePolygon(k) /\ IsClosed(OuterRing(k))
    /\ Cardinality(Crossings(OuterRing(k))) = 2
    /\ Len(emitted[k][1].coordinates) = 2

----------------------------------------------------------------------------
(* Claims on a run over a collection (Spec) *)

\* some crossing edge of the outer ring of some polygon has a zero denominator
DegenerateEdge(feature) ==
  /\ feature.geom_type = "MultiPolygon"
  /\ \E p \in 1..Len(feature.coordinates) :
       \E i \in Crossings(feature.coordinates[p][1]) :
         ratio_den(feature.coordinates[p][1][i], feature.coordinates[p][1][i + 1]) = 0

\* C4: under each policy every input feature yields at least one output feature.
C4_EveryFeatureEmitted ==
  \A k \in Processed : Len(emitted[k]) >= 1

\* C7: a crossing edge with a zero interpolation denominator is a per-feature
\* error: the run is never aborted, the remaining features are processed, and
\* the affected feature is dropped or passed through unmodified.
C7_DegenerateEdgeContained ==
  /\ status # "aborted"
  /\ \A k \in Processed :
       (policy = "SplitInterpolate" /\ DegenerateEdge(features[k]))
         => (emitted[k] = <<>> \/ emitted[k] = <<features[k]>>)

----------------------------------------------------------------------------
(* Claims on split-dateline-v2.py (SpecPartition) *)

\* the points of a ring east of 0 and west of 0
EastOf0(ring) == {i \in 1..Len(ring) : Lon(ring[i]) > 0}
WestOf0(ring) == {i \in 1..Len(ring) : Lon(ring[i]) < 0}

SpanOf(ring) == SetMax(RingLons(ring)) - SetMin(RingLons(ring))

\* Scenario D: one flagged outer ring of 5 points east of 0 and 3 points west of 0
ScenarioD(k) ==
  /\ policy = "SplitPartition" /\ SinglePolygon(k)
  /\ SpanOf(OuterRing(k)) > 350
  /\ Cardinality(EastOf0(OuterRing(k))) = 5
  /\ Cardinality(WestOf0(OuterRing(k))) = 3
  /\ Len(OuterRing(k)) = 8

KeepsProperties(out, k) ==
  \A key \in DOMAIN features[k].properties :
    key \in DOMAIN out.properties /\ out.properties[key] = features[k].properties[key]

\* C5 as claimed: Scenario D emits exactly two features, the first with
\* '_part' 1 and the second with '_part' 2, each with every original property
\* key and value.
C5_TwoPartsTagged ==
  \A k \in Processed :
    ScenarioD(k)
      => /\ Len(emitted[k]) = 2
         /\ "_part" \in DOMAIN emitted[k][1].properties
         /\ emitted[k][1].properties["_part"] = 1
         /\ "_part" \in DOMAIN emitted[k][2].properties
         /\ emitted[k][2].properties["_part"] = 2
         /\ KeepsProperties(emitted[k][1], k)
         /\ KeepsProperties(emitted[k][2], k)

\* C5 amended: Scenario D emits exactly one feature, the east part: the west
\* group of 3 points is left out, no '_part' is added, the properties are the
\* original ones, and the one ring holds the 5 eastern points (those past 170
\* moved by -360) and a closing point if the first and the last differ.
C5_OneEastPart ==
  \A k \in Processed :
    ScenarioD(k)
      => /\ Len(emitted[k]) = 1
         /\ emitted[k][1].properties = features[k].properties
         /\ emitted[k][1].geom_type = "MultiPolygon"
         /\ Len(emitted[k][1].coordinates) = 1
         /\ Len(emitted[k][1].coordinates[1]) = 1
         /\ LET ring == emitted[k][1].coordinates[1][1]
                east == SelectSeq(OuterRing(k), LAMBDA c : Lon(c) > 0)
            IN  /\ Len(ring) \in {5, 6}
                /\ IsClosed(ring)
                /\ \A i \in 1..5 :
                     /\ Lat(ring[i]) = Lat(east[i])
                     /\ Lon(ring[i]) = IF Lon(east[i]) > 170 THEN Lon(east[i]) - 360
                                       ELSE Lon(east[i])

\* C5 witness: Scenario D was processed, with properties holding a '_part'
C5_Witness ==
  \E k \in Processed :
    /\ ScenarioD(k)
    /\ "_part" \in DOMAIN features[k].properties
    /\ Len(emitted[k]) = 1

\* C8: SplitPartition is idempotent on its output: for an input with longitudes
\* in [-180, 180], a second run on each emitted feature leaves it unchanged,
\* i.e. no emitted ring has a longitude span above 350.
C8_PartitionIdempotent ==
  \A k \in Processed :
    (policy = "SplitPartition" /\ SinglePolygon(k) /\ LonsWithin(OuterRing(k), -180, 180))
      => \A j \in 1..Len(emitted[k]) :
           /\ SplitPartitionFeature(emitted[k][j]) = <<emitted[k][j]>>
           /\ \A p \in 1..Len(emitted[k][j].coordinates) :
                SpanOf(emitted[k][j].coordinates[p][1]) <= 350

----------------------------------------------------------------------------
(* Claims on fix-dateline-final.py (SpecUnify) *)

\* every (polygon, ring, point) position of MultiPolygon coordinates
Positions(coords) ==
  {<<p, r, i>> \in (1..Len(coords)) \X (1..2) \X (1..(MaxUnifyLen + 1)) :
     r <= Len(coords[p]) /\ i <= Len(coords[p][r])}

SameShape(a, b) ==
  /\ Len(a) = Len(b)
  /\ \A p \in 1..Len(a) :
       /\ Len(a[p]) = Len(b[p])
       /\ \A r \in 1..Len(a[p]) : Len(a[p][r]) = Len(b[p][r])

\* the aggregate bounds satisfy min < -170 and max > 170
BoxFlagged(coords) ==
  /\ \E q \in Positions(coords) : Lon(coords[q[1]][q[2]][q[3]]) < -170
  /\ \E q \in Positions(coords) : Lon(coords[q[1]][q[2]][q[3]]) > 170

\* C9: after ShiftUnify ran on a MultiPolygon with min < -170 and max > 170, no
\* coordinate of any ring, outer or hole, has a negative longitude, every
\* latitude and every longitude that was not negative is unchanged, and a
\* second run does not flag the result and changes no coordinate.
C9_UnifyIdempotent ==
  \A k \in Processed :
    (policy = "ShiftUnify" /\ features[k].geom_type = "MultiPolygon"
       /\ BoxFlagged(features[k].coordinates))
      => LET in  == features[k].coordinates
             out == emitted[k][1].coordinates
         IN  /\ Len(emitted[k]) = 1
             /\ SameShape(in, out)
             /\ \A q \in Positions(in) :
                  LET c == in[q[1]][q[2]][q[3]]
                      d == out[q[1]][q[2]][q[3]]
                  IN  /\ Lon(d) >= 0
                      /\ Lat(d) = Lat(c)
                      /\ Lon(c) >= 0 => Lon(d) = Lon(c)
             /\ ~BoxCrosses(out)
             /\ ShiftUnifyFeature(emitted[k][1]) = emitted[k][1]

\* C9 witness: a flagged polygon with a hole was shifted, a negative longitude
\* of the hole included
C9_Witness ==
  \E k \in Processed :
    /\ policy = "ShiftUnify"
    /\ BoxFlagged(features[k].coordinates)
    /\ Len(features[k].coordinates[1]) = 2
    /\ \E i \in 1..Len(features[k].coordinates[1][2]) :
         /\ Lon(features[k].coordinates[1][2][i]) = -100
         /\ Lon(emitted[k][1].coordinates[1][2][i]) = 260

----------------------------------------------------------------------------
(* Claims on features away from the seam (SpecInland) *)

\* every longitude of every ring lies in [-170, 170]
Inland(feature) ==
  /\ feature.geom_type = "MultiPolygon"
  /\ \A p \in 1..Len(feature.coordinates) :
       \A r \in 1..Len(feature.coordinates[p]) :
         LonsWithin(feature.coordinates[p][r], -170, 170)

\* some outer ring has a consecutive pair more than 180 degrees apart
OuterJump(feature) ==
  \E p \in 1..Len(feature.coordinates) : Crossings(feature.coordinates[p][1]) # {}

\* C6 as claimed: a MultiPolygon with every longitude in [-170, 170] is flagged
\* by none of the three detectors and passes through with identical
\* coordinates under ShiftUnify, SplitInterpolate and SplitPartition.
C6_InlandNeverFlagged ==
  \A k \in Processed :
    Inland(features[k])
      => /\ ~needs_split(features[k].coordinates)
         /\ ~has_crossing(features[k].coordinates)
         /\ ~BoxCrosses(features[k].coordinates)
         /\ emitted[k] = <<features[k]>>

\* C6 amended: a MultiPolygon with every longitude in [-170, 170] is flagged
\* neither by the span test nor by the bounding-box test and passes through
\* unchanged under ShiftUnify and SplitPartition; the edge-jump test flags it
\* exactly when some outer ring has a consecutive pair more than 180 degrees
\* apart, and SplitInterpolate passes it through unchanged exactly when no
\* outer ring has such a pair.
C6_InlandPassThrough ==
  \A k \in Processed :
    Inland(features[k])
      => /\ ~has_crossing(features[k].coordinates)
         /\ ~BoxCrosses(features[k].coordinates)
         /\ needs_split(features[k].coordinates) <=> OuterJump(features[k])
         /\ policy \in {"ShiftUnify", "SplitPartition"} => emitted[k] = <<features[k]>>
         /\ policy = "SplitInterpolate"
              => (emitted[k] = <<features[k]>> <=> ~OuterJump(features[k]))

\* C6 witness: SplitInterpolate passed through two polygons without a jump in
\* an outer ring, one of them with a jump in its hole
C6_Witness ==
  \E k \in Processed :
    /\ policy = "SplitInterpolate"
    /\ Inland(features[k])
    /\ Len(features[k].coordinates) = 2
    /\ ~OuterJump(features[k])
    /\ Len(features[k].coordinates[1]) = 2
    /\ RingLons(features[k].coordinates[2][1]) = {-170, 0}
    /\ emitted[k] = <<features[k]>>

====
